---- MODULE Spec2Model ----
(***************************************************************************)
(* A model of the botfixzed maintenance scripts: the per-repository        *)
(* pipelines of bot2101.ts and bot2104.ts and the helpers of utils.ts.     *)
(*                                                                         *)
(* Texts are sequences of tokens.  A theme file is a sequence of string    *)
(* tokens; a manifest is a sequence of fields, each with its key, its      *)
(* layout (how key, separator and value are spaced and quoted) and its     *)
(* value, a sequence of Tok records.                                       *)
(*                                                                         *)
(* Each repo is cloned into a subdirectory of its own of the scratch       *)
(* directory and no step reads another repo's subdirectory, so the file    *)
(* system is kept as the checkout of the loop's current repo.  External    *)
(* commands (gh, git) answer with a success flag chosen freely at each     *)
(* call.  Retries are capped at MaxAttempts runs of the pipeline per repo. *)
(***************************************************************************)
EXTENDS Integers, Sequences, FiniteSets, TLC

VARIABLES
    script,    \* which script runs: "bot2101", "bot2104" or "part001"
    repos,     \* the repo list of getReposWithIssueN: index -> repo name kind
    idx,       \* index in repos of the loop's current repo (0 before the loop)
    pc,        \* position of the script
    cwd,       \* process working directory: "work" or "clone"
    saved,     \* stack of originalDir values held by live switchDirTemp scopes
    err,       \* the raised error in flight or caught ("none" when there is none)
    clone,     \* the checkout directory work/<name> of the current repo
    botPRs,    \* remote: index -> number of open pull requests the bot authored
    reached,   \* set of indexes whose processing has begun
    calls,     \* retry: invocations of fn for the current repo
    answers,   \* retry: the operator's answers for the current repo
    cmds,      \* commands issued by the current openPR / updatePr call, with results
    branch,    \* existingPRBranchName: "null" or the branch of the existing PR
    changed,   \* the changed / changes flag of the current attempt
    hist,      \* results of the transform calls completed for the current repo
    before,    \* the checkout as it was when the last transform call began
    work,      \* the scratch directory apart from this run's clones: absent,
               \* or a directory with the clones a previous run left in it
    head       \* git HEAD of the clone: "none" (no clone), "default" (the
               \* branch gh repo clone checked out), "detached" (a commit
               \* checked out by a remote-tracking name), "local" (a branch
               \* that git checkout -b created)

vars == <<script, repos, idx, pc, cwd, saved, err, clone, botPRs, reached,
          calls, answers, cmds, branch, changed, hist, before, work, head>>

----------------------------------------------------------------------------
(* Bounds of the model *)

NRepos == 2
MaxAttempts == 2
MaxThemeLen == 6
MaxFields == 2

----------------------------------------------------------------------------
(* Tokens and texts *)

Tok(k, n, s) == [k |-> k, n |-> n, s |-> s]
Num(n) == Tok("num", n, "")
Id(s) == Tok("id", 0, s)
Pun(s) == Tok("pun", 0, s)

RECURSIVE Join(_, _)
Join(parts, sep) ==
    IF parts = <<>> THEN <<>>
    ELSE IF Len(parts) = 1 THEN <<parts[1]>>
    ELSE <<parts[1], sep>> \o Join(Tail(parts), sep)

\* p occurs in t starting at position i
OccursAt(t, p, i) ==
    /\ i >= 1
    /\ i + Len(p) - 1 <= Len(t)
    /\ \A j \in 1..Len(p) : t[i + j - 1] = p[j]

\* String.prototype.includes
Includes(t, p) == \E i \in 1..Len(t) : OccursAt(t, p, i)

\* String.prototype.replaceAll with a string pattern: left to right, the
\* occurrences replaced do not overlap
RECURSIVE ReplaceAllFrom(_, _, _, _)
ReplaceAllFrom(t, p, r, i) ==
    IF i > Len(t) THEN <<>>
    ELSE IF OccursAt(t, p, i) THEN r \o ReplaceAllFrom(t, p, r, i + Len(p))
    ELSE <<t[i]>> \o ReplaceAllFrom(t, p, r, i + 1)

\* String.prototype.replace with a string pattern: the first occurrence only
RECURSIVE ReplaceFirstFrom(_, _, _, _)
ReplaceFirstFrom(t, p, r, i) ==
    IF i > Len(t) THEN <<>>
    ELSE IF OccursAt(t, p, i) THEN r \o SubSeq(t, i + Len(p), Len(t))
    ELSE <<t[i]>> \o ReplaceFirstFrom(t, p, r, i + 1)

ReplaceAll(t, p, r) == ReplaceAllFrom(t, p, r, 1)

----------------------------------------------------------------------------
(* Semantic versions: jsr:@std/semver parse, increment "patch", format *)

NoSemVer == [ok |-> FALSE, major |-> 0, minor |-> 0, patch |-> 0,
             pre |-> <<>>, build |-> <<>>]

\* position of the first token of toks equal to tk, Len(toks) + 1 if none
RECURSIVE IndexOf(_, _, _)
IndexOf(toks, tk, i) ==
    IF i > Len(toks) THEN i
    ELSE IF toks[i] = tk THEN i
    ELSE IndexOf(toks, tk, i + 1)

\* a dot-separated, non-empty list of identifiers
IsDotted(toks) ==
    /\ Len(toks) % 2 = 1
    /\ \A i \in 1..Len(toks) :
          IF i % 2 = 1 THEN toks[i].k \in {"num", "id"} ELSE toks[i] = Pun(".")

Undot(toks) == [i \in 1..((Len(toks) + 1) \div 2) |-> toks[2 * i - 1]]

ParseSemVer(toks) ==
    LET plus == IndexOf(toks, Pun("+"), 1)
        main == SubSeq(toks, 1, plus - 1)
        bld  == SubSeq(toks, plus + 1, Len(toks))
        dash == IndexOf(main, Pun("-"), 1)
        core == SubSeq(main, 1, dash - 1)
        pre  == SubSeq(main, dash + 1, Len(main))
        coreOk == /\ Len(core) = 5
                  /\ core[1].k = "num" /\ core[2] = Pun(".")
                  /\ core[3].k = "num" /\ core[4] = Pun(".")
                  /\ core[5].k = "num"
        preOk == dash > Len(main) \/ IsDotted(pre)
        bldOk == plus > Len(toks) \/ IsDotted(bld)
    IN  IF coreOk /\ preOk /\ bldOk
        THEN [ok |-> TRUE, major |-> core[1].n, minor |-> core[3].n,
              patch |-> core[5].n,
              pre |-> IF dash > Len(main) THEN <<>> ELSE Undot(pre),
              build |-> IF plus > Len(toks) THEN <<>> ELSE Undot(bld)]
        ELSE NoSemVer

\* increment(version, "patch"): a pre-release version is bumped up to the same
\* patch version (1.2.0-5 patches to 1.2.0), any other one to patch + 1; the
\* build metadata is kept
IncrementWrong(v) ==
    [v EXCEPT !.patch = v.patch + 1]

IncrementSemVer(v) ==
    [v EXCEPT !.patch = IF v.pre /= <<>> THEN v.patch ELSE v.patch + 1,
              !.pre = <<>>]

FormatSemVer(v) ==
    <<Num(v.major), Pun("."), Num(v.minor), Pun("."), Num(v.patch)>>
    \o (IF v.pre = <<>> THEN <<>> ELSE <<Pun("-")>> \o Join(v.pre, Pun(".")))
    \o (IF v.build = <<>> THEN <<>> ELSE <<Pun("+")>> \o Join(v.build, Pun(".")))

----------------------------------------------------------------------------
(* The checkout: theme files, manifests, grammar configs *)

\* a file name is <<stem, extension>>; a path is the sequence of its parts
ThemePath(name) == <<"themes">> \o name
TomlPath == <<"extension", ".toml">>
JsonPath == <<"extension", ".json">>

NoFile == [exists |-> FALSE, text |-> <<>>]
File(text) == [exists |-> TRUE, text |-> text]
NoDir == [exists |-> FALSE, entries |-> <<>>]
Dir(entries) == [exists |-> TRUE, entries |-> entries]
Entry(name, kind, text) == [name |-> name, kind |-> kind, text |-> text]

NoClone == [exists |-> FALSE, themes |-> NoDir, toml |-> NoFile,
            json |-> NoFile, grammars |-> NoDir]
Checkout(themes, toml, json, grammars) ==
    [exists |-> TRUE, themes |-> themes, toml |-> toml, json |-> json,
     grammars |-> grammars]

\* the scratch directory: entries are <<name, checkout>> pairs
NoWork == [exists |-> FALSE, entries |-> {}]
WorkDir(entries) == [exists |-> TRUE, entries |-> entries]
EmptyWork == WorkDir({})

\* the result of a transform call
Result(tree, ret, e, w) == [tree |-> tree, ret |-> ret, err |-> e, writes |-> w]

----------------------------------------------------------------------------
(* Manifests.  A field is key, layout, value.  The key is <<prefix, base>>  *)
(* ("schema_", "version").  Layout "canon" is  key = "value"  in TOML and   *)
(* "key": "value"  in JSON; "tight" has no blanks around the separator;     *)
(* "bare" is an unquoted value.                                             *)

Field(key, lay, val) == [key |-> key, lay |-> lay, val |-> val]
VersionKey == <<"", "version">>
SyntaxErrKey == <<"", "!">>

\* /version = "[^"]+"/ : unanchored, so it also matches the tail of a longer key
TomlVersionRe(f) == f.key[2] = "version" /\ f.lay = "canon" /\ f.val /= <<>>
\* /"version": "[^"]+"/ : the opening quote anchors the key
JsonVersionRe(f) == f.key = VersionKey /\ f.lay = "canon" /\ f.val /= <<>>

FirstMatch(text, kind) ==
    LET hits == {i \in 1..Len(text) :
                   IF kind = "toml" THEN TomlVersionRe(text[i])
                   ELSE JsonVersionRe(text[i])}
    IN  IF hits = {} THEN 0 ELSE CHOOSE i \in hits : \A j \in hits : i <= j

\* String.prototype.replace with a regex without the g flag: the first match
ReplaceVersion(text, kind, newVersion) ==
    LET i == FirstMatch(text, kind)
    IN  IF i = 0 THEN text ELSE [text EXCEPT ![i].val = newVersion]

\* parseToml / JSON.parse, as far as the version field goes: which field holds
\* the document's own version (0: none), or a syntax error
VersionFields(text) == {i \in 1..Len(text) : text[i].key = VersionKey}
HasDuplicateKey(text) ==
    \E i, j \in 1..Len(text) : i < j /\ text[i].key = text[j].key
ParseOk(text, kind) ==
    /\ \A i \in 1..Len(text) : text[i].key /= SyntaxErrKey
    /\ kind = "toml" => ~HasDuplicateKey(text)
OwnVersionField(text) ==
    LET vs == VersionFields(text)
    IN  IF vs = {} THEN 0 ELSE CHOOSE i \in vs : \A j \in vs : j <= i

\* parseSemVer of config.version: a missing or non-string value is a TypeError
ConfigSemVer(text) ==
    LET i == OwnVersionField(text)
    IN  IF i = 0 \/ text[i].lay = "bare" THEN NoSemVer
        ELSE ParseSemVer(text[i].val)

BumpText(text, kind) ==
    ReplaceVersion(text, kind,
                   FormatSemVer(IncrementSemVer(ConfigSemVer(text))))

\* neither existsSync test passed: the function ends
BumpNoManifestThrows(tree) == Result(tree, FALSE, "NotFound", {})

BumpNoManifest(tree) == Result(tree, FALSE, "none", {})

BumpVersion(tree) ==
    IF tree.exists /\ tree.toml.exists THEN
        IF ~ParseOk(tree.toml.text, "toml")
        THEN Result(tree, FALSE, "SyntaxError", {})
        ELSE IF ~ConfigSemVer(tree.toml.text).ok
        THEN Result(tree, FALSE, "TypeError", {})
        ELSE Result([tree EXCEPT !.toml.text = BumpText(tree.toml.text, "toml")],
                    FALSE, "none", {TomlPath})
    ELSE IF tree.exists /\ tree.json.exists THEN
        IF ~ParseOk(tree.json.text, "json")
        THEN Result(tree, FALSE, "SyntaxError", {})
        ELSE IF ~ConfigSemVer(tree.json.text).ok
        THEN Result(tree, FALSE, "TypeError", {})
        ELSE Result([tree EXCEPT !.json.text = BumpText(tree.json.text, "json")],
                    FALSE, "none", {JsonPath})
    ELSE BumpNoManifest(tree)

----------------------------------------------------------------------------
(* bot2101: the attribute rename *)

OldKey == <<"scrollbar", "_", "thumb.background">>
NewKey == <<"scrollbar", ".", "thumb.background">>

\* theme.replaceAll(old, new)
RenameFirstOnly(theme) == ReplaceFirstFrom(theme, OldKey, NewKey, 1)

RenameKey(theme) == ReplaceAll(theme, OldKey, NewKey)

\* the loop over findThemes(): acc is the Result so far
PatchFirstOnly(acc, i) ==
    LET es == acc.tree.themes.entries
        hits == {j \in i..Len(es) : /\ es[j].name[2] = ".json"
                                    /\ Includes(es[j].text, OldKey)}
        j == CHOOSE j \in hits : \A k \in hits : j <= k
    IN  IF hits = {} THEN acc
        ELSE [acc EXCEPT !.tree.themes.entries[j].text = RenameKey(es[j].text),
                         !.ret = TRUE,
                         !.writes = {ThemePath(es[j].name)}]

RECURSIVE PatchFrom(_, _)
PatchFrom(acc, i) ==
    LET es == acc.tree.themes.entries IN
    IF i > Len(es) THEN acc
    ELSE IF es[i].name[2] /= ".json" THEN PatchFrom(acc, i + 1)
    ELSE IF es[i].kind /= "file"
    THEN [acc EXCEPT !.err = "IsADirectory"]
    ELSE IF ~Includes(es[i].text, OldKey) THEN PatchFrom(acc, i + 1)
    ELSE PatchFrom(
           [acc EXCEPT !.tree.themes.entries[i].text = RenameKey(es[i].text),
                       !.ret = TRUE,
                       !.writes = acc.writes \cup {ThemePath(es[i].name)}],
           i + 1)

PatchAlwaysWrites(tree) ==
    LET es == tree.themes.entries IN
    Result(tree, \E i \in 1..Len(es) : Includes(es[i].text, OldKey), "none",
           {ThemePath(es[i].name) : i \in 1..Len(es)})

\* patchScrollbarThumbBg, once inside the checkout
PatchScrollbarThumbBg(tree) ==
    IF ~tree.themes.exists THEN Result(tree, FALSE, "NotFound", {})
    ELSE PatchFrom(Result(tree, FALSE, "none", {}), 1)

----------------------------------------------------------------------------
(* switchDirTemp: the scope's state is the working directory and the stack *)
(* of the originalDir values of the scopes that are live                   *)

Enter(c, s) == [cwd |-> "clone", saved |-> <<c>> \o s]

DisposeNoRestore(st) == [cwd |-> st.cwd, saved |-> Tail(st.saved)]

Dispose(st) == [cwd |-> Head(st.saved), saved |-> Tail(st.saved)]

\* a whole scope, entered and left within one step
Scoped(c, s) == Dispose(Enter(c, s))

----------------------------------------------------------------------------
(* Inputs *)

SeqsUpTo(S, n) == UNION {[1..k -> S] : k \in 0..n}

Alphabet == {"scrollbar", "_", ".", "thumb.background"}
ThemeTexts == SeqsUpTo(Alphabet, MaxThemeLen)
ShortThemeTexts == SeqsUpTo(Alphabet, 3)

AJson == <<"a", ".json">>
BJson == <<"b", ".json">>
NToml == <<"n", ".toml">>

SecondEntries ==
    {Entry(BJson, "file", t) : t \in ShortThemeTexts}
    \cup {Entry(NToml, "file", OldKey), Entry(BJson, "dir", <<>>)}

ThemeDirs ==
    {NoDir, Dir(<<>>)}
    \cup {Dir(<<Entry(AJson, "file", t)>>) : t \in ThemeTexts}
    \cup {Dir(<<Entry(AJson, "file", t), e>>) :
            t \in ShortThemeTexts, e \in SecondEntries}
    \cup {Dir(<<e, Entry(AJson, "file", OldKey)>>) : e \in SecondEntries}

PatchTrees ==
    {NoClone} \cup {Checkout(d, NoFile, NoFile, NoDir) : d \in ThemeDirs}

CoreText(c) == <<Num(c[1]), Pun("."), Num(c[2]), Pun("."), Num(c[3])>>
Cores == {<<1, 2, 3>>, <<0, 9, 10>>, <<1, 0, 0>>}
PreTexts == {<<>>, <<Pun("-"), Id("alpha")>>,
             <<Pun("-"), Id("rc"), Pun("."), Num(1)>>}
BuildTexts == {<<>>, <<Pun("+"), Id("b1")>>}
ValidVersions ==
    {CoreText(c) \o p \o b : c \in Cores, p \in PreTexts, b \in BuildTexts}
InvalidVersions ==
    {<<Num(1), Pun("."), Num(2)>>, <<Id("x")>>,
     CoreText(<<1, 2, 3>>) \o <<Pun("-")>>}

VersionFieldInputs ==
    {Field(VersionKey, l, v) :
        l \in {"canon", "tight"}, v \in ValidVersions \cup InvalidVersions}
    \cup {Field(VersionKey, "bare", <<Num(1)>>)}
OtherFields ==
    {Field(<<"schema_", "version">>, "bare", <<Num(1)>>),
     Field(<<"schema_", "version">>, "canon", <<Num(1)>>),
     Field(<<"", "name">>, "canon", <<Id("ext")>>),
     Field(VersionKey, "canon", CoreText(<<2, 0, 0>>)),
     Field(SyntaxErrKey, "bare", <<>>)}

InsertAt(seq, i, x) == SubSeq(seq, 1, i - 1) \o <<x>> \o SubSeq(seq, i, Len(seq))

\* manifests of at most MaxFields fields
Manifests ==
    SeqsUpTo(OtherFields, MaxFields - 1)
    \cup {InsertAt(o, i, v) : <<o, i>> \in
            {<<o, i>> \in SeqsUpTo(OtherFields, MaxFields - 1) \X (1..MaxFields) :
               i <= Len(o) + 1},
          v \in VersionFieldInputs}

GoodToml == <<Field(VersionKey, "canon", CoreText(<<1, 2, 3>>))>>
GoodJson == <<Field(VersionKey, "canon", CoreText(<<0, 9, 10>>))>>

BumpTrees ==
    {NoClone, Checkout(NoDir, NoFile, NoFile, NoDir),
     Checkout(NoDir, NoFile, NoFile, Dir(<<>>))}
    \cup {Checkout(Dir(<<Entry(AJson, "file", t)>>), NoFile, NoFile, NoDir) :
            t \in {OldKey, NewKey}}
    \cup {Checkout(NoDir, File(m), j, NoDir) :
            m \in Manifests, j \in {NoFile, File(GoodJson)}}
    \cup {Checkout(NoDir, NoFile, File(m), NoDir) : m \in Manifests}

----------------------------------------------------------------------------
(* The transforms on their own: one call of bumpVersion, and passes of     *)
(* patchScrollbarThumbBg, from the scratch directory                       *)

Outcome(op, r) == [op |-> op, ret |-> r.ret, writes |-> r.writes]

UnitStart(trees, works) ==
    /\ script = "bot2101"
    /\ repos = <<"repo">>
    /\ idx = 1
    /\ pc = "unit"
    /\ cwd = "work"
    /\ saved = <<>>
    /\ err = "none"
    /\ clone \in trees
    /\ botPRs = <<0>>
    /\ reached = {1}
    /\ calls = 0
    /\ answers = <<>>
    /\ cmds = <<>>
    /\ branch = "null"
    /\ changed = FALSE
    /\ hist = <<>>
    /\ before = NoClone
    /\ work \in works
    /\ head = "none"

UnitInit(trees) == UnitStart(trees, {EmptyWork})

UnitFrame == UNCHANGED <<head, work, script, repos, idx, saved, botPRs, reached, calls,
                         answers, cmds, branch>>

\* bumpVersion(repo.name)
UnitBump ==
    /\ pc = "unit"
    /\ LET r == BumpVersion(clone) IN
        /\ before' = clone
        /\ clone' = r.tree
        /\ err' = r.err
        /\ hist' = IF r.err = "none" THEN Append(hist, Outcome("bump", r)) ELSE hist
        /\ pc' = IF r.err = "none" THEN "returned" ELSE "threw"
    /\ UNCHANGED <<cwd, changed>>
    /\ UnitFrame

\* changed = patchScrollbarThumbBg(repo.name), once and once more
UnitPatch ==
    /\ pc \in {"unit", "returned"}
    /\ Len(hist) < 2
    /\ IF ~clone.exists
       THEN /\ err' = "NotFound"
            /\ pc' = "threw"
            /\ UNCHANGED <<cwd, clone, changed, hist, before>>
       ELSE LET r == PatchScrollbarThumbBg(clone) IN
            /\ before' = clone
            /\ clone' = r.tree
            /\ err' = r.err
            /\ cwd' = Scoped(cwd, saved).cwd
            /\ changed' = IF r.err = "none" THEN r.ret ELSE changed
            /\ hist' = IF r.err = "none" THEN Append(hist, Outcome("patch", r))
                       ELSE hist
            /\ pc' = IF r.err = "none" THEN "returned" ELSE "threw"
    /\ UnitFrame

SpecBump == UnitInit(BumpTrees) /\ [][UnitBump]_vars
SpecPatch == UnitInit(PatchTrees) /\ [][UnitPatch]_vars

----------------------------------------------------------------------------
(* bot2104: the manifest port and the update steps                         *)

NameKey == <<"", "name">>
IdKey == <<"", "id">>
SchemaVersionKey == <<"schema_", "version">>
GrammarKey == <<"", "grammar">>
GrammarsTableKey == <<"", "[grammars]">>
LanguagesKey == <<"", "languages">>

FieldAt(text, key) ==
    LET hits == {i \in 1..Len(text) : text[i].key = key}
    IN  IF hits = {} THEN 0 ELSE CHOOSE i \in hits : \A j \in hits : j <= i

\* cases.kebabCase: the words in lower case, joined by "-"
Lower(w) ==
    CASE w = "My" -> "my" [] w = "Cool" -> "cool" [] w = "Ext" -> "ext"
      [] OTHER -> w
Words(val) == SelectSeq(val, LAMBDA t : t.k /= "pun")
KebabCase(val) ==
    Join([i \in 1..Len(Words(val)) |-> Id(Lower(Words(val)[i].s))], Pun("-"))

\* JSON.parse keeps the last of duplicate keys, in the place of the first
RECURSIVE DedupFrom(_, _)
DedupFrom(text, i) ==
    IF i > Len(text) THEN <<>>
    ELSE IF \E j \in 1..(i - 1) : text[j].key = text[i].key
    THEN DedupFrom(text, i + 1)
    ELSE <<text[FieldAt(text, text[i].key)]>> \o DedupFrom(text, i + 1)

SetField(text, key, lay, val) ==
    IF FieldAt(text, key) = 0 THEN Append(text, Field(key, lay, val))
    ELSE [text EXCEPT ![FieldAt(text, key)] = Field(key, lay, val)]

\* stringifyToml: the  key = value  lines first and the tables after them,
\* each group in the order of the object's keys
IsTable(f) == f.lay = "table"
IsPlain(f) == f.lay /= "table"
Canon(f) == [f EXCEPT !.lay = IF @ \in {"bare", "table"} THEN @ ELSE "canon"]
Stringify(text) ==
    LET canon == [i \in 1..Len(text) |-> Canon(text[i])]
    IN  SelectSeq(canon, IsPlain) \o SelectSeq(canon, IsTable)

\* findRepoConfig: the first file of grammars/ named *.toml (0: none)
FindRepoConfig(tree) ==
    LET es == tree.grammars.entries
        hits == {i \in 1..Len(es) : es[i].kind = "file" /\ es[i].name[2] = ".toml"}
    IN  IF ~tree.grammars.exists \/ hits = {} THEN 0
        ELSE CHOOSE i \in hits : \A j \in hits : i <= j

\* the text appended for a companion grammar config: a  grammar = "<g>"
\* line and a [grammars.<g>] header followed by the file's content
GrammarText(e) ==
    <<Field(GrammarKey, "canon", <<Id(e.name[1])>>),
      Field(<<"[grammars.", e.name[1]>>, "table", e.text)>>

\* incrementSemVer(parseSemVer(jsonConfig.version), "patch"), formatted
PortKeepsVersion(v) == FormatSemVer(v)

PortVersion(v) == FormatSemVer(IncrementSemVer(v))

\* portExtToToml from JSON.parse on
PortFromJson(tree) ==
    IF ~tree.json.exists THEN Result(tree, FALSE, "NotFound", {})
    ELSE IF ~ParseOk(tree.json.text, "json")
    THEN Result(tree, FALSE, "SyntaxError", {})
    ELSE IF FieldAt(tree.json.text, NameKey) = 0
            \/ ~ConfigSemVer(tree.json.text).ok
    THEN Result(tree, FALSE, "TypeError", {})
    ELSE LET cfg  == DedupFrom(tree.json.text, 1)
             name == cfg[FieldAt(cfg, NameKey)].val
             ver  == PortVersion(ConfigSemVer(tree.json.text))
             c1   == SetField(cfg, IdKey, "canon", KebabCase(name))
             c2   == SetField(c1, VersionKey, "canon", ver)
             c3   == SetField(c2, SchemaVersionKey, "bare", <<Num(1)>>)
             g    == FindRepoConfig(tree)
             out  == Stringify(c3)
                     \o (IF g = 0 THEN <<>>
                         ELSE GrammarText(tree.grammars.entries[g]))
         IN  Result([tree EXCEPT !.toml = File(out)], TRUE, "none", {TomlPath})

PortSkipsCheck(tree) == PortFromJson(tree)

\* portExtToToml, once inside the checkout
PortExtToToml(tree) ==
    IF tree.toml.exists THEN Result(tree, FALSE, "none", {})
    ELSE PortFromJson(tree)

\* _updateExistingPRRemoveJsonConfig, once inside the checkout
RemoveJsonConfig(tree) ==
    IF ~tree.json.exists THEN Result(tree, FALSE, "none", {})
    ELSE Result([tree EXCEPT !.json = NoFile], TRUE, "none", {})

\* parseToml, as far as the top level goes: a  key = value  line that follows
\* a table header is a key of that table, not of the document
InTable(f) == <<Tok("key", 0, f.key[2])>> \o f.val
RECURSIVE TomlObject(_, _, _)
TomlObject(text, i, acc) ==
    IF i > Len(text) THEN acc
    ELSE IF IsPlain(text[i]) /\ acc /= <<>> /\ IsTable(acc[Len(acc)])
    THEN TomlObject(text, i + 1,
                    [acc EXCEPT ![Len(acc)].val = @ \o InTable(text[i])])
    ELSE TomlObject(text, i + 1, Append(acc, text[i]))

\* updateCleanup, once inside the checkout
UpdateCleanup(tree) ==
    IF ~tree.toml.exists THEN Result(tree, FALSE, "none", {})
    ELSE IF ~ParseOk(tree.toml.text, "toml")
    THEN Result(tree, FALSE, "SyntaxError", {})
    ELSE LET kept == SelectSeq(TomlObject(tree.toml.text, 1, <<>>),
                       LAMBDA f : f.key \notin
                          {GrammarKey, GrammarsTableKey, LanguagesKey})
             new  == Stringify(kept)
         IN  Result([tree EXCEPT !.toml = File(new), !.grammars = NoDir],
                    new /= tree.toml.text, "none", {TomlPath})

\* the block of the update path: both steps under one switchDirTemp scope
UpdateSteps(tree) ==
    LET r1 == RemoveJsonConfig(tree)
        r2 == UpdateCleanup(r1.tree)
    IN  Result(r2.tree, r1.ret \/ r2.ret, r2.err, r1.writes \cup r2.writes)

----------------------------------------------------------------------------
(* portExtToToml on its own: one call, made inside the checkout            *)

BrokenJsonText == <<Field(SyntaxErrKey, "bare", <<>>)>>
MyCoolExt == <<Id("My"), Pun(" "), Id("Cool"), Pun(" "), Id("Ext")>>
DescriptionKey == <<"", "description">>
ThemesKey == <<"", "themes">>
ThemesObject == Field(ThemesKey, "table", <<Id("t")>>)

PortNames ==
    {Field(NameKey, "canon", MyCoolExt), Field(NameKey, "tight", <<Id("ext")>>)}
PortVersions ==
    {Field(VersionKey, "canon", v) :
        v \in {CoreText(<<1, 0, 0>>),
               CoreText(<<0, 9, 10>>) \o <<Pun("-"), Id("alpha")>>,
               CoreText(<<1, 2, 3>>) \o <<Pun("-"), Id("rc"), Pun("."), Num(1),
                                          Pun("+"), Id("b1")>>,
               <<Id("x")>>}}
    \cup {Field(VersionKey, "tight", CoreText(<<1, 2, 3>>) \o <<Pun("+"), Id("b1")>>)}
PortExtras ==
    {Field(DescriptionKey, "tight", <<Id("d")>>),
     ThemesObject,
     Field(IdKey, "canon", <<Id("old")>>),
     Field(SchemaVersionKey, "bare", <<Num(0)>>)}

\* legacy manifests: name and version, at most MaxFields - 1 fields after them
PortManifests ==
    {pre \o <<n, v>> \o post :
        pre \in {<<>>, <<ThemesObject>>}, n \in PortNames, v \in PortVersions,
        post \in SeqsUpTo(PortExtras, MaxFields - 1)}
    \cup {<<v>> : v \in PortVersions}
    \cup {BrokenJsonText}

GoToml == Entry(<<"go", ".toml">>, "file", <<"path = grammars/go">>)
RustToml == Entry(<<"rust", ".toml">>, "file", <<"path = grammars/rust">>)
GrammarDirs ==
    {NoDir, Dir(<<>>), Dir(<<RustToml>>),
     Dir(<<Entry(<<"notes", ".md">>, "file", <<"notes">>), RustToml>>),
     Dir(<<Entry(<<"x", ".toml">>, "dir", <<>>), GoToml, RustToml>>),
     Dir(<<Entry(<<"x", ".toml">>, "dir", <<>>)>>)}

PortTrees ==
    {NoClone}
    \cup {Checkout(NoDir, t, j, g) :
            t \in {NoFile, File(GoodToml)},
            j \in {NoFile} \cup {File(m) : m \in PortManifests},
            g \in GrammarDirs}

\* { using _ = switchDirTemp(repo.name); changed = portExtToToml(); }
UnitPort ==
    /\ pc = "unit"
    /\ IF ~clone.exists
       THEN /\ err' = "NotFound"
            /\ pc' = "threw"
            /\ UNCHANGED <<cwd, clone, changed, hist, before>>
       ELSE LET r == PortExtToToml(clone) IN
            /\ before' = clone
            /\ clone' = r.tree
            /\ err' = r.err
            /\ cwd' = Scoped(cwd, saved).cwd
            /\ changed' = IF r.err = "none" THEN r.ret ELSE changed
            /\ hist' = IF r.err = "none" THEN Append(hist, Outcome("port", r))
                       ELSE hist
            /\ pc' = IF r.err = "none" THEN "returned" ELSE "threw"
    /\ UnitFrame

SpecPort == UnitInit(PortTrees) /\ [][UnitPort]_vars

----------------------------------------------------------------------------
(* The scripts: checkouts a clone can bring *)

OldTheme == Dir(<<Entry(AJson, "file", OldKey)>>)
NewTheme == Dir(<<Entry(AJson, "file", NewKey)>>)
TwoThemes == Dir(<<Entry(AJson, "file", NewKey), Entry(BJson, "file", OldKey)>>)
BadVersionToml == <<Field(VersionKey, "canon", <<Num(1), Pun("."), Num(2)>>)>>
LegacyJson ==
    <<Field(NameKey, "canon", MyCoolExt),
      Field(VersionKey, "canon", CoreText(<<1, 0, 0>>))>>
BadVersionJson ==
    <<Field(NameKey, "canon", <<Id("Ext")>>),
      Field(VersionKey, "canon", <<Id("x")>>)>>
BrokenJson == BrokenJsonText
PortedToml ==
    <<Field(NameKey, "canon", <<Id("Ext")>>),
      Field(VersionKey, "canon", CoreText(<<1, 0, 1>>)),
      Field(GrammarKey, "canon", <<Id("rust")>>)>>
RustGrammar == Dir(<<RustToml>>)

Trees2101 ==
    {Checkout(t, m, NoFile, NoDir) :
        t \in {NoDir, OldTheme, NewTheme, TwoThemes},
        m \in {NoFile, File(GoodToml), File(BadVersionToml)}}
Trees2104 ==
    {Checkout(NoDir, m, j, g) :
        m \in {NoFile, File(GoodToml), File(PortedToml)},
        j \in {NoFile, File(LegacyJson), File(BadVersionJson), File(BrokenJson)},
        g \in {NoDir, RustGrammar}}
Trees(s) == IF s = "bot2104" THEN Trees2104 ELSE Trees2101

RepoNames == {"aura-theme", "other"}

----------------------------------------------------------------------------
(* createWorkDir on its own                                                *)

\* what a previous run can have left at the scratch path: nothing, or a
\* directory with a clone (as cloned, or patched) under some of the names
WorkDirs ==
    {NoWork}
    \cup {WorkDir({<<n, f[n]>> : n \in {m \in RepoNames : f[m].exists}}) :
            f \in [RepoNames -> Trees2101 \cup {NoClone}]}

\* try { Deno.removeSync(path, { recursive: true }) } catch { /* ignore */ }:
\* the directory is gone, or the removal failed at some point and what was
\* not removed yet is still there
RemoveSync(w) ==
    IF ~w.exists THEN {w}
    ELSE {NoWork} \cup {WorkDir(s) : s \in SUBSET w.entries}

\* Deno.mkdirSync(path): AlreadyExists when the path is there
MkdirRecursive(w) ==
    [dir |-> IF w.exists THEN w ELSE EmptyWork, err |-> "none"]

MkdirSync(w) ==
    IF w.exists THEN [dir |-> w, err |-> "AlreadyExists"]
    ELSE [dir |-> EmptyWork, err |-> "none"]

UnitCreateWorkDir ==
    /\ pc = "unit"
    /\ \E w \in RemoveSync(work) :
        LET r == MkdirSync(w) IN
        /\ work' = r.dir
        /\ err' = r.err
        /\ pc' = IF r.err = "none" THEN "returned" ELSE "threw"
    /\ hist' = <<[op |-> "createWorkDir", found |-> work]>>
    /\ UNCHANGED <<head, script, repos, idx, cwd, saved, clone, botPRs, reached,
                   calls, answers, cmds, branch, changed, before>>

SpecWork == UnitStart({NoClone}, WorkDirs) /\ [][UnitCreateWorkDir]_vars

----------------------------------------------------------------------------
(* The scripts: control *)

Init ==
    /\ script \in {"bot2101", "bot2104"}
    /\ repos \in [1..NRepos -> RepoNames]
    /\ idx = 0
    /\ pc = "loop"
    /\ cwd = "work"
    /\ saved = <<>>
    /\ err = "none"
    /\ clone = NoClone
    /\ botPRs \in [1..NRepos -> {0, 1}]
    /\ reached = {}
    /\ calls = 0
    /\ answers = <<>>
    /\ cmds = <<>>
    /\ branch = "null"
    /\ changed = FALSE
    /\ hist = <<>>
    /\ before = NoClone
    /\ work = EmptyWork
    /\ head = "none"

\* where a raised error lands: bot2101 runs the pipeline inside retry(), whose
\* catch prompts the operator (part_001 inside tryUtilUserAction, the same
\* loop); bot2104 awaits the steps at the top level, where an error ends the
\* script
Landing(s) == IF s = "bot2104" THEN "crashed" ELSE "confirm"

Cmd(c, ok) == [cmd |-> c, ok |-> ok]

\* for (let [index, repo] of repos.entries())
FirstStep(s, name) ==
    IF s = "bot2104" THEN "correctRepoInfo"
    ELSE IF s = "bot2101" /\ name = "aura-theme" THEN "loop"
    ELSE "attempt"

LoopNext ==
    /\ pc = "loop"
    /\ IF idx = NRepos
       THEN /\ pc' = "done"
            /\ UNCHANGED <<idx, reached, clone, calls, answers, cmds, branch,
                           changed, hist, before, err, head>>
       ELSE /\ idx' = idx + 1
            /\ reached' = reached \cup {idx + 1}
            /\ pc' = FirstStep(script, repos[idx + 1])
            /\ clone' = NoClone
            /\ head' = "none"
            /\ calls' = 0
            /\ answers' = <<>>
            /\ cmds' = <<>>
            /\ branch' = "null"
            /\ changed' = FALSE
            /\ hist' = <<>>
            /\ before' = NoClone
            /\ err' = "none"
    /\ UNCHANGED <<work, script, repos, cwd, saved, botPRs>>

\* retry: await fn()
RetryCall ==
    /\ pc = "attempt"
    /\ calls' = calls + 1
    /\ pc' = "correctRepoInfo"
    /\ UNCHANGED <<head, work, script, repos, idx, cwd, saved, err, clone, botPRs, reached,
                   answers, cmds, branch, changed, hist, before>>

\* retry: return after fn() resolved; in bot2104 the end of the loop body
AfterReturnPrompts == "confirm"

AfterReturn == "loop"

FnReturn ==
    /\ pc = "fnReturn"
    /\ pc' = AfterReturn
    /\ UNCHANGED <<head, work, script, repos, idx, cwd, saved, err, clone, botPRs, reached,
                   calls, answers, cmds, branch, changed, hist, before>>

\* retry: catch (e) { if (!confirm(...)) return; }
AfterConfirmAlwaysRetry(yes) == "attempt"

AfterConfirm(yes) == IF yes THEN "attempt" ELSE "loop"

Confirm ==
    /\ pc = "confirm"
    /\ \E yes \in BOOLEAN :
        /\ yes => calls < MaxAttempts
        /\ answers' = Append(answers, yes)
        /\ pc' = AfterConfirm(yes)
    /\ err' = "none"
    /\ UNCHANGED <<head, work, script, repos, idx, cwd, saved, clone, botPRs, reached,
                   calls, cmds, branch, changed, hist, before>>

\* correctRepoInfo -> getCurrentRepoInfo: gh repo view
AfterRepoInfoCloneFirst(s, ok) == IF ~ok THEN Landing(s) ELSE "fetchRepo"

AfterRepoInfo(s, ok) ==
    IF ~ok THEN Landing(s)
    ELSE IF s = "bot2104" THEN "getExistingPR" ELSE "fetchRepo"

CorrectRepoInfo ==
    /\ pc = "correctRepoInfo"
    /\ \E ok \in BOOLEAN :
        /\ pc' = AfterRepoInfo(script, ok)
        /\ err' = IF ok THEN "none" ELSE "RepoInfoError"
    /\ UNCHANGED <<head, work, script, repos, idx, cwd, saved, clone, botPRs, reached,
                   calls, answers, cmds, branch, changed, hist, before>>

\* fetchRepo: gh repo clone; it fails when the directory is there already, and
\* the directory is not the one the script enters when the repo was renamed
AfterFetch(s, b) ==
    IF s = "bot2101" THEN "getExistingPR"
    ELSE IF s = "part001" THEN "patch"
    ELSE IF b /= "null" THEN "fetchPr" ELSE "portBlock"

\* a fresh clone is on the default branch of the repo
ClonedHead(t) == IF t.exists THEN "default" ELSE "none"

FetchRepo ==
    /\ pc = "fetchRepo"
    /\ \E t \in Trees(script) \cup {NoClone} :
        /\ clone' = IF clone.exists THEN clone ELSE t
        /\ head' = IF clone.exists THEN head ELSE ClonedHead(t)
    /\ pc' = AfterFetch(script, branch)
    /\ UNCHANGED <<work, script, repos, idx, cwd, saved, err, botPRs, reached, calls,
                   answers, cmds, branch, changed, hist, before>>

\* getExistingPR: gh pr list --author; null when the query fails or lists none
ExistingPR(ok, n) == IF ok /\ n > 0 THEN "pr-branch" ELSE "null"

AfterExisting(s, b) ==
    IF s = "bot2104" THEN "fetchRepo"
    ELSE IF b /= "null" THEN "fetchPr" ELSE "patch"

GetExistingPR ==
    /\ pc = "getExistingPR"
    /\ \E ok \in BOOLEAN :
        /\ branch' = ExistingPR(ok, botPRs[idx])
        /\ pc' = AfterExisting(script, branch')
    /\ UNCHANGED <<head, work, script, repos, idx, cwd, saved, err, clone, botPRs, reached,
                   calls, answers, cmds, changed, hist, before>>

\* fetchPrAndSetupBranch: remote add, fetch, checkout fork/<branch>; the
\* results are not looked at; a checkout that works brings the branch's files
\* git checkout fork/<branchName>: the name of a remote-tracking branch, so
\* HEAD is detached at its commit and no local branch is created
CheckedOut(h) == "detached"

FetchPrAndSetupBranch ==
    /\ pc = "fetchPr"
    /\ IF ~clone.exists
       THEN /\ pc' = Landing(script)
            /\ err' = "NotFound"
            /\ UNCHANGED <<clone, cwd, head>>
       ELSE /\ \E ok \in BOOLEAN, t \in Trees(script) :
                 /\ clone' = IF ok THEN t ELSE clone
                 /\ head' = IF ok THEN CheckedOut(head) ELSE head
            /\ cwd' = Scoped(cwd, saved).cwd
            /\ pc' = IF script = "bot2101" THEN "patchU" ELSE "updateBlock"
            /\ err' = "none"
    /\ UNCHANGED <<work, script, repos, idx, saved, botPRs, reached, calls, answers,
                   cmds, branch, changed, hist, before>>

\* a transform call under a switchDirTemp scope: op names it, r is its Result,
\* next the position after a normal return
Transform(op, r, next) ==
    IF ~clone.exists
    THEN /\ pc' = Landing(script)
         /\ err' = "NotFound"
         /\ UNCHANGED <<clone, cwd, changed, hist, before>>
    ELSE /\ before' = clone
         /\ clone' = r.tree
         /\ cwd' = Scoped(cwd, saved).cwd
         /\ err' = r.err
         /\ changed' = IF r.err = "none" THEN r.ret ELSE changed
         /\ hist' = IF r.err = "none" THEN Append(hist, Outcome(op, r)) ELSE hist
         /\ pc' = IF r.err = "none" THEN next ELSE Landing(script)

TransformFrame ==
    UNCHANGED <<head, work, script, repos, idx, saved, botPRs, reached, calls, answers,
                cmds, branch>>

\* bot2101, create path: const changed = patchScrollbarThumbBg(repo.name)
AfterPatchNoOpFails(ch) == IF ch THEN "bumpVersion" ELSE "confirm"

AfterPatchAlwaysBumps(ch) == "bumpVersion"

AfterPatch(ch) == IF ch THEN "bumpVersion" ELSE "fnReturn"

Patch ==
    /\ pc = "patch"
    /\ LET r == PatchScrollbarThumbBg(clone)
       IN  Transform("patch", r, AfterPatch(r.ret))
    /\ TransformFrame

\* bot2101, update path
AfterPatchU(ch) == IF ch THEN "updatePr" ELSE "fnReturn"

PatchU ==
    /\ pc = "patchU"
    /\ LET r == PatchScrollbarThumbBg(clone)
       IN  Transform("patch", r, AfterPatchU(r.ret))
    /\ TransformFrame

\* bot2101: bumpVersion(repo.name), from the scratch directory
BumpVersionStep ==
    /\ pc = "bumpVersion"
    /\ LET r == BumpVersion(clone) IN
        /\ before' = clone
        /\ clone' = r.tree
        /\ err' = r.err
        /\ hist' = IF r.err = "none" THEN Append(hist, Outcome("bump", r)) ELSE hist
        /\ pc' = IF r.err = "none" THEN "openPR" ELSE Landing(script)
    /\ UNCHANGED <<head, work, script, repos, idx, cwd, saved, botPRs, reached, calls,
                   answers, cmds, branch, changed>>

\* bot2104, create path: { using _ = switchDirTemp(...); changed = portExtToToml() }
AfterPort(ch) == IF ch THEN "openPR" ELSE "fnReturn"

PortBlock ==
    /\ pc = "portBlock"
    /\ LET r == PortExtToToml(clone)
       IN  Transform("port", r, AfterPort(r.ret))
    /\ TransformFrame

\* bot2104, update path: the block with the two update steps
AfterUpdate(ch) == IF ch THEN "updatePr" ELSE "fnReturn"

UpdateBlock ==
    /\ pc = "updateBlock"
    /\ LET r == UpdateSteps(clone)
       IN  Transform("update", r, AfterUpdate(r.ret))
    /\ TransformFrame

----------------------------------------------------------------------------
(* openPR and updatePr, command by command *)

GitFrame ==
    UNCHANGED <<work, script, repos, idx, err, clone, reached, calls, answers,
                branch, changed, hist, before>>

CallFrame == UNCHANGED head /\ GitFrame

\* using _ = switchDirTemp(name); git diff
EnterCall(next) ==
    IF ~clone.exists
    THEN /\ pc' = Landing(script)
         /\ err' = "NotFound"
         /\ UNCHANGED <<cwd, saved, cmds, clone, botPRs>>
         /\ UNCHANGED <<head, work, script, repos, idx, reached, calls, answers, branch,
                        changed, hist, before>>
    ELSE /\ cwd' = Enter(cwd, saved).cwd
         /\ saved' = Enter(cwd, saved).saved
         /\ \E ok \in BOOLEAN : cmds' = <<Cmd("diff", ok)>>
         /\ pc' = next
         /\ UNCHANGED botPRs
         /\ CallFrame

\* await run([...]) whose result is not looked at
Step(c, next) ==
    /\ \E ok \in BOOLEAN : cmds' = Append(cmds, Cmd(c, ok))
    /\ pc' = next
    /\ UNCHANGED <<cwd, saved, botPRs>>
    /\ CallFrame

\* the function returns: the scope is disposed
Leave ==
    /\ cwd' = Dispose([cwd |-> cwd, saved |-> saved]).cwd
    /\ saved' = Dispose([cwd |-> cwd, saved |-> saved]).saved
    /\ pc' = "fnReturn"

OpenPREnter == pc = "openPR" /\ EnterCall("fork")
OpenPRFork == pc = "fork" /\ Step("fork", "remoteAdd")
OpenPRRemoteAdd == pc = "remoteAdd" /\ Step("remoteAdd", "checkoutB")

\* git checkout -b branchName: a new local branch, checked out
OpenPRCheckout ==
    /\ pc = "checkoutB"
    /\ \E ok \in BOOLEAN :
        /\ cmds' = Append(cmds, Cmd("checkoutB", ok))
        /\ head' = IF ok THEN "local" ELSE head
    /\ pc' = "add"
    /\ UNCHANGED <<cwd, saved, botPRs>>
    /\ GitFrame

OpenPRAddThenPush == pc = "add" /\ Step("add", "push")

OpenPRAdd == pc = "add" /\ Step("add", "commit")

\* if (!commitResult.success) return
CommitIgnored(ok) == TRUE

CommitGoesOn(ok) == ok

OpenPRCommit ==
    /\ pc = "commit"
    /\ \E ok \in BOOLEAN :
        /\ cmds' = Append(cmds, Cmd("commit", ok))
        /\ IF CommitGoesOn(ok)
           THEN pc' = "push" /\ UNCHANGED <<cwd, saved>>
           ELSE Leave
    /\ UNCHANGED botPRs
    /\ CallFrame

\* git push -u fork branchName: branchName names a local branch, so the push
\* cannot succeed unless this call's checkout -b created it
BranchMade(cs) == \E i \in 1..Len(cs) : cs[i].cmd = "checkoutB" /\ cs[i].ok

OpenPRPush ==
    /\ pc = "push"
    /\ \E ok \in BOOLEAN :
        /\ ok => BranchMade(cmds)
        /\ cmds' = Append(cmds, Cmd("push", ok))
    /\ pc' = "prCreate"
    /\ UNCHANGED <<cwd, saved, botPRs>>
    /\ CallFrame

\* gh pr create: it can only open a pull request from a branch that was pushed
PushedOk(cs) == \E i \in 1..Len(cs) : cs[i].cmd = "push" /\ cs[i].ok

OpenPRCreate ==
    /\ pc = "prCreate"
    /\ \E ok \in BOOLEAN :
        /\ ok => PushedOk(cmds)
        /\ cmds' = Append(cmds, Cmd("prCreate", ok))
        /\ botPRs' = IF ok THEN [botPRs EXCEPT ![idx] = @ + 1] ELSE botPRs
    /\ Leave
    /\ CallFrame

UpdatePrEnter == pc = "updatePr" /\ EnterCall("uAdd")
UpdatePrAdd == pc = "uAdd" /\ Step("add", "uCommit")

UpdatePrCommit ==
    /\ pc = "uCommit"
    /\ \E ok \in BOOLEAN :
        /\ cmds' = Append(cmds, Cmd("commit", ok))
        /\ IF CommitGoesOn(ok)
           THEN pc' = "uPush" /\ UNCHANGED <<cwd, saved>>
           ELSE Leave
    /\ UNCHANGED botPRs
    /\ CallFrame

\* git push -u fork branchName, branchName being the head of the existing
\* pull request: it cannot succeed unless the clone has a local branch
UpdatePrPush ==
    /\ pc = "uPush"
    /\ \E ok \in BOOLEAN :
        /\ ok => head = "local"
        /\ cmds' = Append(cmds, Cmd("push", ok))
    /\ Leave
    /\ UNCHANGED botPRs
    /\ CallFrame

Next ==
    \/ LoopNext
    \/ RetryCall
    \/ FnReturn
    \/ Confirm
    \/ CorrectRepoInfo
    \/ FetchRepo
    \/ GetExistingPR
    \/ FetchPrAndSetupBranch
    \/ Patch
    \/ PatchU
    \/ BumpVersionStep
    \/ PortBlock
    \/ UpdateBlock
    \/ OpenPREnter
    \/ OpenPRFork
    \/ OpenPRRemoteAdd
    \/ OpenPRCheckout
    \/ OpenPRAdd
    \/ OpenPRCommit
    \/ OpenPRPush
    \/ OpenPRCreate
    \/ UpdatePrEnter
    \/ UpdatePrAdd
    \/ UpdatePrCommit
    \/ UpdatePrPush

Spec == Init /\ [][Next]_vars

----------------------------------------------------------------------------
(* The earlier revision src/unnamed/part_001: the pipeline of bot2101       *)
(* without the query for an existing PR, entering and leaving the clone by  *)
(* explicit Deno.chdir calls.  The script is followed as long as every      *)
(* attempt starts in the scratch directory: an attempt that starts          *)
(* elsewhere clones into the directory it is in, and is not followed        *)
(* further (position "astray").                                             *)

P1Init ==
    /\ script = "part001"
    /\ repos \in [1..NRepos -> RepoNames]
    /\ idx = 0
    /\ pc = "loop"
    /\ cwd = "work"
    /\ saved = <<>>
    /\ err = "none"
    /\ clone = NoClone
    /\ botPRs \in [1..NRepos -> {0, 1}]
    /\ reached = {}
    /\ calls = 0
    /\ answers = <<>>
    /\ cmds = <<>>
    /\ branch = "null"
    /\ changed = FALSE
    /\ hist = <<>>
    /\ before = NoClone
    /\ work = EmptyWork
    /\ head = "none"

P1Frame ==
    UNCHANGED <<head, work, script, repos, idx, saved, botPRs, reached, answers,
                branch>>

\* tryUtilUserAction: await fn()
P1Attempt ==
    /\ pc = "attempt"
    /\ IF cwd = "work"
       THEN pc' = "correctRepoInfo" /\ calls' = calls + 1
       ELSE pc' = "astray" /\ UNCHANGED calls
    /\ UNCHANGED <<cwd, err, clone, cmds, changed, hist, before>>
    /\ P1Frame

\* findTheme: the first entry of themes/ named *.json (0: none)
FindTheme(tree) ==
    LET es == tree.themes.entries
        hits == {i \in 1..Len(es) : es[i].name[2] = ".json"}
    IN  IF hits = {} THEN 0 ELSE CHOOSE i \in hits : \A j \in hits : i <= j

\* patchScrollbarThumbBg of part_001, after Deno.chdir(repo)
P1PatchScrollbarThumbBg(tree) ==
    IF ~tree.themes.exists THEN Result(tree, FALSE, "NotFound", {})
    ELSE LET i == FindTheme(tree)
             es == tree.themes.entries
         IN  IF i = 0 THEN Result(tree, FALSE, "ThemeNotFound", {})
             ELSE IF es[i].kind /= "file"
             THEN Result(tree, FALSE, "IsADirectory", {})
             ELSE IF ~Includes(es[i].text, OldKey)
             THEN Result(tree, FALSE, "none", {})
             ELSE Result([tree EXCEPT !.themes.entries[i].text = RenameKey(es[i].text)],
                         TRUE, "none", {ThemePath(es[i].name)})

\* Deno.chdir(tempDir) is the statement before return true, and only there
P1CwdAfterPatch(r) == IF r.err = "none" /\ r.ret THEN "work" ELSE "clone"

P1Patch ==
    /\ pc = "patch"
    /\ IF ~clone.exists
       THEN /\ pc' = "confirm"
            /\ err' = "NotFound"
            /\ UNCHANGED <<cwd, clone, changed, hist, before>>
       ELSE LET r == P1PatchScrollbarThumbBg(clone) IN
            /\ before' = clone
            /\ clone' = r.tree
            /\ cwd' = P1CwdAfterPatch(r)
            /\ err' = r.err
            /\ changed' = IF r.err = "none" THEN r.ret ELSE changed
            /\ hist' = IF r.err = "none" THEN Append(hist, Outcome("patch", r))
                       ELSE hist
            /\ pc' = IF r.err /= "none" THEN "confirm"
                     ELSE IF r.ret THEN "bumpVersion" ELSE "fnReturn"
    /\ UNCHANGED <<calls, cmds>>
    /\ P1Frame

\* Deno.chdir(`${tempDir}/${name}`); git diff
P1OpenPREnter ==
    /\ pc = "openPR"
    /\ IF ~clone.exists
       THEN /\ pc' = "confirm"
            /\ err' = "NotFound"
            /\ UNCHANGED <<cwd, cmds>>
       ELSE /\ cwd' = "clone"
            /\ \E ok \in BOOLEAN : cmds' = <<Cmd("diff", ok)>>
            /\ pc' = "fork"
            /\ UNCHANGED err
    /\ UNCHANGED <<clone, calls, changed, hist, before>>
    /\ P1Frame

\* if (!commitResult.success) return: the chdir back is not reached
P1OpenPRCommit ==
    /\ pc = "commit"
    /\ \E ok \in BOOLEAN :
        /\ cmds' = Append(cmds, Cmd("commit", ok))
        /\ pc' = IF CommitGoesOn(ok) THEN "push" ELSE "fnReturn"
    /\ UNCHANGED <<cwd, err, clone, calls, changed, hist, before>>
    /\ P1Frame

\* gh pr create; Deno.chdir(tempDir)
P1OpenPRCreate ==
    /\ pc = "prCreate"
    /\ \E ok \in BOOLEAN :
        /\ ok => PushedOk(cmds)
        /\ cmds' = Append(cmds, Cmd("prCreate", ok))
        /\ botPRs' = IF ok THEN [botPRs EXCEPT ![idx] = @ + 1] ELSE botPRs
    /\ cwd' = "work"
    /\ pc' = "fnReturn"
    /\ UNCHANGED <<head, work, script, repos, idx, saved, reached, answers, branch>>
    /\ UNCHANGED <<err, clone, calls, changed, hist, before>>

P1Next ==
    \/ LoopNext
    \/ P1Attempt
    \/ FnReturn
    \/ Confirm
    \/ CorrectRepoInfo
    \/ FetchRepo
    \/ P1Patch
    \/ BumpVersionStep
    \/ P1OpenPREnter
    \/ OpenPRFork
    \/ OpenPRRemoteAdd
    \/ OpenPRCheckout
    \/ OpenPRAdd
    \/ P1OpenPRCommit
    \/ OpenPRPush
    \/ P1OpenPRCreate

SpecPart001 == P1Init /\ [][P1Next]_vars

----------------------------------------------------------------------------
(* Claims about the scripts (stated of Spec)                               *)

OpenPRPcs == {"fork", "remoteAdd", "checkoutB", "add", "commit", "push", "prCreate"}
UpdatePrPcs == {"uAdd", "uCommit", "uPush"}
FailedCommit(i) == cmds[i].cmd = "commit" /\ ~cmds[i].ok
YesCount(a) == Cardinality({i \in 1..Len(a) : a[i]})

\* C1: in openPR and in updatePr, once the commit command reported
\* non-success no further command is issued in that call (no push, no pr
\* create) and the call returns normally: nothing is raised.
C1_NoPushAfterFailedCommit ==
    \A i \in 1..Len(cmds) :
        FailedCommit(i) => /\ i = Len(cmds)
                           /\ pc \in {"fnReturn", "loop", "done"}
                           /\ err = "none"

C1_Witness ==
    /\ pc = "fnReturn"
    /\ Len(cmds) = 6
    /\ cmds[2].cmd = "fork"
    /\ FailedCommit(6)

\* C2: when fn fails and the operator answers no at the first prompt, retry
\* has invoked fn exactly once and returns without raising.
C2_NoAtFirstPrompt ==
    (script = "bot2101" /\ answers /= <<>> /\ ~answers[1])
        => /\ calls = 1
           /\ Len(answers) = 1
           /\ pc \in {"loop", "done"}
           /\ err = "none"

C2_Witness ==
    /\ script = "bot2101"
    /\ answers = <<FALSE>>
    /\ calls = 1
    /\ pc = "loop"

\* C3: retry runs fn from its first step once initially and once more after
\* each failure answered yes; it stops at the first success or the first no,
\* prompts only after a failure, never raises, and the main loop then goes on
\* with the next repo of the list.
C3_RetryProtocol ==
    [][script = "bot2101" =>
        /\ pc' = "correctRepoInfo" => (pc = "attempt" /\ calls' = calls + 1)
        /\ pc = "attempt" => pc' = "correctRepoInfo"
        /\ pc' = "attempt" =>
              \/ pc = "loop" /\ calls' = 0 /\ answers' = <<>>
              \/ pc = "confirm" /\ answers' = Append(answers, TRUE)
        /\ (pc = "confirm" /\ answers' = Append(answers, TRUE)) => pc' = "attempt"
        /\ (pc = "confirm" /\ answers' = Append(answers, FALSE)) => pc' = "loop"
        /\ pc = "fnReturn" => (pc' = "loop" /\ answers' = answers)
        /\ answers' /= answers => (pc = "confirm" \/ answers' = <<>>)
        /\ pc' /= "crashed"
        /\ (pc = "loop" /\ idx < NRepos) =>
              (idx' = idx + 1 /\ reached' = reached \cup {idx + 1})
        /\ pc' = "attempt" => calls' = YesCount(answers')
        /\ (pc' /= "attempt" /\ calls' > 0) => calls' = YesCount(answers') + 1
    ]_vars

C3_Witness ==
    /\ script = "bot2101"
    /\ pc = "fnReturn"
    /\ calls = 2
    /\ answers = <<TRUE>>
    /\ idx < NRepos

\* C4, as stated: whatever fails while one repo is processed, the run of each
\* script ends only after every repo of the list has been reached.
C4_EveryRepoReached ==
    pc \in {"done", "crashed"} => reached = 1..NRepos

\* C5, as stated: in bot2101 openPR (fork, ..., pr create) runs only for a
\* repo without an open pull request of the bot, whatever the pr list query
\* reports, and no repo ends up with more than one.
C5_AtMostOneBotPR ==
    script = "bot2101" =>
        /\ pc \in {"openPR"} \cup OpenPRPcs => botPRs[idx] = 0
        /\ \A i \in 1..NRepos : botPRs[i] <= 1

\* C6: every switchDirTemp scope leaves the working directory as it was
\* before the scope was entered, on normal completion, early return and a
\* raised error alike, and a scope that could not be entered leaves it alone:
\* outside openPR and updatePr the script is in the scratch directory with no
\* scope alive, inside them in the checkout with that one scope.
C6_CwdRestored ==
    IF pc \in OpenPRPcs \cup UpdatePrPcs
    THEN cwd = "clone" /\ saved = <<"work">>
    ELSE cwd = "work" /\ saved = <<>>

C6_Witness ==
    /\ pc = "confirm"
    /\ err \in {"NotFound", "IsADirectory"}
    /\ clone.exists
    /\ cwd = "work"

\* C7, as stated: a failed repo-view query makes correctRepoInfo raise, and
\* the error lands in the retry wrapper, where the operator is prompted.
C7_RepoInfoErrorPrompts ==
    err = "RepoInfoError" => pc = "confirm"

\* C16, as stated: when bot2104 has finished a repo in which it made a
\* change, on the create path as on the update path, the checkout holds one
\* manifest form: extension.toml exists, extension.json does not, and the
\* version extension.toml declares is valid semver.
C16_OneManifestForm ==
    (script = "bot2104" /\ pc = "fnReturn" /\ changed)
        => /\ clone.toml.exists
           /\ ~clone.json.exists
           /\ ParseOk(clone.toml.text, "toml")
           /\ ConfigSemVer(clone.toml.text).ok

----------------------------------------------------------------------------
(* Claims about bumpVersion (stated of SpecBump)                           *)

\* the manifest bumpVersion works on: extension.toml if present, else
\* extension.json
ManifestKind(tree) == IF tree.toml.exists THEN "toml" ELSE "json"
ManifestText(tree) ==
    IF tree.toml.exists THEN tree.toml.text ELSE tree.json.text

\* the semantic version a manifest declares (ok = FALSE: none that is valid)
OwnSemVer(tree) ==
    IF /\ tree.exists
       /\ tree.toml.exists \/ tree.json.exists
       /\ ParseOk(ManifestText(tree), ManifestKind(tree))
    THEN ConfigSemVer(ManifestText(tree))
    ELSE NoSemVer

\* the version bumpVersion produced: the text it put in place of the first
\* match of its pattern (<<>> when the pattern matched nothing)
WrittenVersion(old, new) ==
    LET i == FirstMatch(ManifestText(old), ManifestKind(old))
    IN  IF i = 0 THEN <<>> ELSE ManifestText(new)[i].val

HasManifest(tree) == tree.exists /\ (tree.toml.exists \/ tree.json.exists)

\* the path of the manifest bumpVersion works on
ManifestPath(tree) == IF tree.toml.exists THEN TomlPath ELSE JsonPath

\* C15, as stated: bumpVersion writes exactly one file, extension.toml if it
\* exists and extension.json otherwise, and leaves the other one untouched;
\* in the written file the manifest's own version field holds the incremented
\* version and everything else is as it was, any other key whose name ends in
\* version included, for every layout of the text.
C15_OnlyTheVersionField ==
    (pc = "returned" /\ HasManifest(before))
        => LET old == ManifestText(before)
               new == ManifestText(clone)
               own == OwnVersionField(old)
           IN  /\ hist[1].writes = {ManifestPath(before)}
               /\ clone.toml.exists = before.toml.exists
               /\ clone.json.exists = before.json.exists
               /\ before.toml.exists => clone.json = before.json
               /\ clone.themes = before.themes
               /\ clone.grammars = before.grammars
               /\ Len(new) = Len(old)
               /\ \A i \in 1..Len(old) : i /= own => new[i] = old[i]
               /\ new[own].key = old[own].key
               /\ new[own].lay = old[own].lay
               /\ new[own].val = FormatSemVer(IncrementSemVer(OwnSemVer(before)))

\* C19: when neither extension.toml nor extension.json exists in the repo
\* directory, bumpVersion returns normally: it does not raise and it creates
\* or writes no file.
C19_NoManifestNoOp ==
    (pc \in {"returned", "threw"} /\ ~HasManifest(before))
        => /\ pc = "returned"
           /\ err = "none"
           /\ hist[1].writes = {}
           /\ clone = before

C19_Witness ==
    /\ pc = "returned"
    /\ before.exists
    /\ before.themes.exists
    /\ ~HasManifest(before)
    /\ clone = before

----------------------------------------------------------------------------
(* Claims about patchScrollbarThumbBg (stated of SpecPatch)                *)

\* the theme files: the .json files directly under themes/
ThemeFiles(tree) ==
    {i \in 1..Len(tree.themes.entries) :
        tree.themes.entries[i].name[2] = ".json"}

OldKeyAbsent(tree) ==
    \A i \in ThemeFiles(tree) : ~Includes(tree.themes.entries[i].text, OldKey)

\* C9: after a pass that returned changed = true, a second pass returns
\* changed = false, writes no file and leaves the checkout as the first pass
\* left it.
C9_Idempotent ==
    (pc = "returned" /\ Len(hist) = 2 /\ hist[1].ret)
        => /\ ~hist[2].ret
           /\ hist[2].writes = {}
           /\ clone = before

C9_Witness ==
    /\ pc = "returned"
    /\ Len(hist) = 2
    /\ hist[1].ret
    /\ Cardinality(hist[1].writes) = 2
    /\ ~hist[2].ret

\* C10: when no theme file contains the old key, patchScrollbarThumbBg returns
\* changed = false and writes no file: the checkout is unchanged.
C10_AbsentKeyNoWrite ==
    (pc = "returned" /\ Len(hist) = 1 /\ OldKeyAbsent(before))
        => /\ ~hist[1].ret
           /\ hist[1].writes = {}
           /\ clone = before

C10_Witness ==
    /\ pc = "returned"
    /\ Len(hist) = 1
    /\ OldKeyAbsent(before)
    /\ \E i \in 1..Len(before.themes.entries) :
          Includes(before.themes.entries[i].text, OldKey)
    /\ ~hist[1].ret

\* the theme files that contain the old key
WithOldKey(tree) ==
    {i \in ThemeFiles(tree) : Includes(tree.themes.entries[i].text, OldKey)}

\* C11: patchScrollbarThumbBg renames in every .json file directly under
\* themes/ that contains the old key, not only in the first one: it returns
\* true exactly when at least one of them contained it, afterwards none
\* contains it, exactly the files that contained it are written, and every
\* other entry of the directory is as it was.
C11_EveryThemeFile ==
    (pc = "returned" /\ Len(hist) = 1)
        => /\ hist[1].ret <=> WithOldKey(before) /= {}
           /\ OldKeyAbsent(clone)
           /\ hist[1].writes =
                 {ThemePath(before.themes.entries[i].name) : i \in WithOldKey(before)}
           /\ Len(clone.themes.entries) = Len(before.themes.entries)
           /\ \A i \in 1..Len(before.themes.entries) :
                 i \notin WithOldKey(before)
                    => clone.themes.entries[i] = before.themes.entries[i]

C11_Witness ==
    /\ pc = "returned"
    /\ Len(hist) = 1
    /\ Cardinality(WithOldKey(before)) = 2
    /\ hist[1].ret
    /\ Cardinality(hist[1].writes) = 2
    /\ OldKeyAbsent(clone)

----------------------------------------------------------------------------
(* Claims about portExtToToml (stated of SpecPort)                         *)

KeysOf(text) == {text[i].key : i \in 1..Len(text)}
Occurrences(text, key) == {i \in 1..Len(text) : text[i].key = key}
TopLevel(text, i) == \A j \in 1..(i - 1) : ~IsTable(text[j])

\* C12: when extension.toml already exists, portExtToToml returns changed =
\* false, writes no file and does not raise, whatever extension.json holds
\* (present, absent, unparsable, with an invalid version).
C12_ExistingTomlNoOp ==
    (pc \in {"returned", "threw"} /\ before.exists /\ before.toml.exists)
        => /\ pc = "returned"
           /\ err = "none"
           /\ ~hist[1].ret
           /\ hist[1].writes = {}
           /\ clone = before

C12_Witness ==
    /\ pc = "returned"
    /\ before.toml.exists
    /\ before.json.exists
    /\ ~ParseOk(before.json.text, "json")
    /\ ~hist[1].ret

\* the case of a port: no extension.toml, and an extension.json that parses
\* and has a name and a valid semver version
PortCase(tree) ==
    /\ tree.exists
    /\ ~tree.toml.exists
    /\ tree.json.exists
    /\ ParseOk(tree.json.text, "json")
    /\ FieldAt(tree.json.text, NameKey) /= 0
    /\ ConfigSemVer(tree.json.text).ok

CompanionConfigs(tree) ==
    IF ~tree.grammars.exists THEN {}
    ELSE {i \in 1..Len(tree.grammars.entries) :
            /\ tree.grammars.entries[i].kind = "file"
            /\ tree.grammars.entries[i].name[2] = ".toml"}

\* the slug of a display name
SlugOf(name) ==
    IF name = MyCoolExt
    THEN <<Id("my"), Pun("-"), Id("cool"), Pun("-"), Id("ext")>>
    ELSE name

\* new is old ported: every legacy field but id, version and schema_version is
\* kept with its value, each key is there once, and id, version and
\* schema_version are top-level keys with the slug, the version ver and 1
Ported(old, new, ver) ==
    LET added == {IdKey, VersionKey, SchemaVersionKey} IN
    /\ KeysOf(new) = KeysOf(old) \cup added
    /\ \A k \in KeysOf(new) : Cardinality(Occurrences(new, k)) = 1
    /\ \A k \in KeysOf(old) \ added :
          /\ new[FieldAt(new, k)].val = old[FieldAt(old, k)].val
          /\ IsTable(new[FieldAt(new, k)]) <=> IsTable(old[FieldAt(old, k)])
    /\ \A k \in added : TopLevel(new, FieldAt(new, k))
    /\ new[FieldAt(new, IdKey)] =
          Field(IdKey, "canon", SlugOf(old[FieldAt(old, NameKey)].val))
    /\ new[FieldAt(new, SchemaVersionKey)] =
          Field(SchemaVersionKey, "bare", <<Num(1)>>)
    /\ new[FieldAt(new, VersionKey)].lay = "canon"
    /\ ParseSemVer(new[FieldAt(new, VersionKey)].val) = ver

PortedWith(ver) ==
    /\ pc = "returned"
    /\ err = "none"
    /\ hist[1].ret
    /\ hist[1].writes = {TomlPath}
    /\ clone.toml.exists
    /\ clone.json = before.json
    /\ clone.grammars = before.grammars
    /\ Ported(before.json.text, clone.toml.text, ver)

\* C13, as stated: without extension.toml and without a companion grammar
\* config, portExtToToml writes an extension.toml that keeps the legacy
\* fields and adds id = the slug of the name, version = the legacy version
\* with patch + 1 and schema_version = 1, with no grammar key and no grammars
\* table, and returns changed = true.
C13_PortAsStated ==
    (pc \in {"returned", "threw"} /\ PortCase(before)
                                  /\ CompanionConfigs(before) = {})
        => PortedWith([ConfigSemVer(before.json.text) EXCEPT !.patch = @ + 1])

\* C13, amended: the same, with version = the legacy version with patch + 1
\* when it carries no pre-release tag, and the legacy version without its
\* pre-release tag (patch kept) when it carries one.
C13_PortAmended ==
    (pc \in {"returned", "threw"} /\ PortCase(before)
                                  /\ CompanionConfigs(before) = {})
        => LET old == ConfigSemVer(before.json.text) IN
           PortedWith(IF old.pre = <<>> THEN [old EXCEPT !.patch = @ + 1]
                      ELSE [old EXCEPT !.pre = <<>>])

C13_Witness ==
    /\ pc = "returned"
    /\ PortCase(before)
    /\ CompanionConfigs(before) = {}
    /\ before.grammars.exists
    /\ ConfigSemVer(before.json.text).pre /= <<>>
    /\ \E i \in 1..Len(before.json.text) : IsTable(before.json.text[i])
    /\ clone.toml.text[FieldAt(clone.toml.text, IdKey)].val =
          <<Id("my"), Pun("-"), Id("cool"), Pun("-"), Id("ext")>>

\* C14, as stated: with a companion config <g>.toml under grammars/, the
\* written extension.toml also has a top-level key grammar = "<g>" and a
\* [grammars.<g>] section whose body is that file's content, for every legacy
\* manifest, nested objects included.
C14_GrammarTopLevel ==
    (pc \in {"returned", "threw"} /\ PortCase(before)
                                  /\ CompanionConfigs(before) /= {})
        => /\ pc = "returned"
           /\ \E g \in CompanionConfigs(before) :
                LET e == before.grammars.entries[g]
                    new == clone.toml.text
                    section == <<"[grammars.", e.name[1]>>
                IN  /\ FieldAt(new, GrammarKey) /= 0
                    /\ new[FieldAt(new, GrammarKey)] =
                          Field(GrammarKey, "canon", <<Id(e.name[1])>>)
                    /\ TopLevel(new, FieldAt(new, GrammarKey))
                    /\ FieldAt(new, section) /= 0
                    /\ new[FieldAt(new, section)] = Field(section, "table", e.text)

----------------------------------------------------------------------------
(* Claims about the no-op outcomes and about openPR (stated of Spec)       *)

\* the step about to be taken meets an expected no-op outcome
ManifestThere == pc = "portBlock" /\ clone.exists /\ clone.toml.exists
NothingToPatch ==
    /\ pc \in {"patch", "patchU"}
    /\ clone.exists
    /\ clone.themes.exists
    /\ \A i \in ThemeFiles(clone) : clone.themes.entries[i].kind = "file"
    /\ OldKeyAbsent(clone)
NothingToCommit ==
    /\ pc \in {"commit", "uCommit"}
    /\ cmds' = Append(cmds, Cmd("commit", FALSE))
PRAlreadyOpen == pc = "getExistingPR" /\ branch' /= "null"

\* C17: the expected no-op outcomes raise nothing and prompt nobody: when the
\* target manifest exists, when the patch finds nothing to change or when the
\* commit reports nothing to commit, fn returns at once; when an open bot PR
\* exists the pipeline goes on with the update path; and after fn returned the
\* loop takes the next repo without asking the operator and without another
\* invocation.
C17_NoOpsDoNotPrompt ==
    [][/\ (ManifestThere \/ NothingToPatch \/ NothingToCommit)
            => /\ pc' = "fnReturn"
               /\ err' = "none"
               /\ answers' = answers
               /\ calls' = calls
       /\ PRAlreadyOpen
            => /\ pc' \in {"fetchPr", "fetchRepo"}
               /\ err' = "none"
               /\ answers' = answers
               /\ calls' = calls
       /\ pc = "fnReturn"
            => /\ pc' = "loop"
               /\ err' = "none"
               /\ answers' = answers
               /\ calls' = calls
    ]_vars

C17_Witness ==
    /\ script = "bot2101"
    /\ pc = "loop"
    /\ calls = 1
    /\ answers = <<>>
    /\ hist = <<[op |-> "patch", ret |-> FALSE, writes |-> {}]>>
    /\ cmds = <<>>
    /\ err = "none"

\* the commands of openPR, by name, in the order of the function's text
OpenPRNames ==
    <<"fork", "remoteAdd", "checkoutB", "add", "commit", "push", "prCreate">>
OpenPROrder == <<"diff">> \o OpenPRNames

\* openPR is the call of the create path: the commands issued are the first
\* Len(cmds) of order, the call is either at the next one or has ended, and
\* it has ended right after pr create or right after a commit that failed
OpenPRFollows(order) ==
    (branch = "null" /\ cmds /= <<>>)
        => /\ Len(cmds) <= Len(order)
           /\ \A i \in 1..Len(cmds) : cmds[i].cmd = order[i]
           /\ IF pc \in OpenPRPcs
              THEN /\ Len(cmds) < Len(order)
                   /\ pc = order[Len(cmds) + 1]
                   /\ \A i \in 1..Len(cmds) : ~FailedCommit(i)
              ELSE /\ pc \in {"fnReturn", "loop", "done"}
                   /\ err = "none"
                   /\ \/ cmds[Len(cmds)].cmd = "prCreate"
                      \/ FailedCommit(Len(cmds))

----------------------------------------------------------------------------
(* Claims about createWorkDir (stated of SpecWork)                         *)

\* C18: after createWorkDir returns, the scratch directory exists and is
\* empty, whatever was at its path before (nothing, an empty directory,
\* clones of a previous run); and it does not raise when nothing was there.
C18_FreshWorkDir ==
    /\ pc = "returned" => (work.exists /\ work.entries = {} /\ err = "none")
    /\ (pc \in {"returned", "threw"} /\ ~hist[1].found.exists)
          => pc = "returned"

C18_Witness ==
    /\ pc = "returned"
    /\ hist[1].found.exists
    /\ Cardinality(hist[1].found.entries) = 2
    /\ \E e \in hist[1].found.entries : e[2].themes = NewTheme
    /\ work = EmptyWork

----------------------------------------------------------------------------
(* Claims about the order of the pipeline (stated of Spec)                 *)

\* the steps of the pipeline for one repo: resolve, query, clone, transform,
\* bump, publish
ResolvePcs == {"correctRepoInfo"}
QueryPcs == {"getExistingPR"}
ClonePcs == {"fetchRepo"}
TransformPcs == {"fetchPr", "patch", "patchU", "portBlock", "updateBlock"}
BumpPcs == {"bumpVersion"}
PublishPcs == {"openPR", "updatePr"} \cup OpenPRPcs \cup UpdatePrPcs

\* the place of a step in an order of the six kinds of step (0: no step)
StageIn(order, p) ==
    IF \E k \in 1..Len(order) : p \in order[k]
    THEN CHOOSE k \in 1..Len(order) : p \in order[k]
    ELSE 0

QueryThenClone ==
    <<ResolvePcs, QueryPcs, ClonePcs, TransformPcs, BumpPcs, PublishPcs>>
CloneThenQuery ==
    <<ResolvePcs, ClonePcs, QueryPcs, TransformPcs, BumpPcs, PublishPcs>>

\* every attempt starts with the resolve step, goes through the steps in the
\* given order, and takes the second and the third step right after the step
\* before them
Ordered(order) ==
    /\ pc' \in ResolvePcs => pc \in {"loop", "attempt"}
    /\ (StageIn(order, pc') > 1) => StageIn(order, pc) \in 1..StageIn(order, pc')
    /\ (StageIn(order, pc') \in {2, 3} /\ pc' /= pc)
          => StageIn(order, pc) = StageIn(order, pc') - 1

\* C21, as stated: in every attempt for every repo the steps occur in the
\* order resolve, query for an existing PR, clone, patch, bump, publish, in
\* bot2101 as in bot2104.
C21_OrderAsStated == [][Ordered(QueryThenClone)]_vars

\* C21, amended: in bot2104 the steps occur in the order resolve, query,
\* clone, transform, publish; in bot2101 in the order resolve, clone, query,
\* patch, bump, publish: there the clone precedes the query.
C21_OrderAmended ==
    [][Ordered(IF script = "bot2104" THEN QueryThenClone ELSE CloneThenQuery)]_vars

C21_Witness ==
    /\ script = "bot2101"
    /\ pc = "getExistingPR"
    /\ clone.exists
    /\ calls = 1
    /\ hist = <<>>

----------------------------------------------------------------------------
(* Claims about the working directory at the start of a repo (stated of    *)
(* SpecPart001; Spec has the same positions)                               *)

\* the processing of a repo of the list begins
BeginsRepo ==
    \/ pc = "attempt" /\ calls = 0
    \/ script = "bot2104" /\ pc = "correctRepoInfo"

\* C22, as stated: when the processing of a repo begins, also after an
\* earlier repo was skipped, failed or was given up at the prompt, the
\* working directory is the scratch directory, in bot2101, in bot2104 and in
\* the revision part_001 with its explicit chdir calls.
C22_StartsInScratchDir == BeginsRepo => cwd = "work"

----------------------------------------------------------------------------
(* Claims about what openPR does with the results of its commands           *)

\* the commands pr create depends on, besides the commit
PrCreateNeeds == {"fork", "remoteAdd", "checkoutB", "add", "push"}

\* C23, as stated: openPR invokes pr create only when the steps it depends
\* on reported success: no pr create is issued in a call in which the push,
\* the fork, the remote add, the branch creation or the staging reported
\* failure.
C23_PrCreateOnlyAfterSuccess ==
    \A i \in 1..Len(cmds) :
        cmds[i].cmd = "prCreate" =>
            \A j \in 1..(i - 1) : cmds[j].cmd \in PrCreateNeeds => cmds[j].ok

----------------------------------------------------------------------------
(* Claims about the branch the update path pushes                           *)

\* C24, as stated: on the update path the branch that updatePr pushes to the
\* fork is a local branch of the clone holding the commit updatePr just
\* made: when updatePr has committed and is about to push, HEAD is on a
\* local branch, not detached.
C24_UpdatePushesLocalBranch == pc = "uPush" => head = "local"

----------------------------------------------------------------------------
(* Claims about what a retry repeats                                        *)

\* an earlier attempt for this repo had its patch rewrite theme files, and the
\* patch has run again since
RewroteInEarlierAttempt ==
    \E i, j \in 1..Len(hist) :
        /\ i < j
        /\ hist[i].op = "patch" /\ hist[i].ret
        /\ hist[j].op = "patch"

\* C25, as stated: in bot2101, when an attempt fails after the patch has
\* rewritten the theme files and the operator answers yes, the re-run, when it
\* meets no further failure, still invokes openPR for the repo: an attempt of
\* the create path that returns after such a failure has issued the commands
\* of openPR.
C25_RetryStillPublishes ==
    (/\ script = "bot2101"
     /\ pc = "fnReturn"
     /\ calls > 1
     /\ branch = "null"
     /\ RewroteInEarlierAttempt) => cmds /= <<>>

\* the calls of bumpVersion that returned, for the current repo
BumpCalls == {i \in 1..Len(hist) : hist[i].op = "bump"}

\* C26: in bot2101, for every repo, over all the attempts of one run, the
\* manifest version is incremented at most once, and only on the create path
\* in an attempt whose patch reported changed = true: bumpVersion is not
\* reached on the update path nor after a patch that reported no change, and a
\* bumpVersion that raised has left both manifests as they were.
C26_BumpedAtMostOnce ==
    script = "bot2101" =>
        /\ Cardinality(BumpCalls) <= 1
        /\ \A i \in BumpCalls :
              /\ i > 1
              /\ hist[i - 1].op = "patch"
              /\ hist[i - 1].ret
        /\ BumpCalls /= {} => branch = "null"
        /\ pc = "bumpVersion" => (branch = "null" /\ changed)
        /\ pc \in {"patchU", "updatePr"} \cup UpdatePrPcs => BumpCalls = {}
        /\ pc = "confirm" =>
              (clone.toml = before.toml /\ clone.json = before.json)

\* a second attempt, after a first that failed, bumped the version
C26_Witness ==
    /\ script = "bot2101"
    /\ calls = 2
    /\ pc = "fnReturn"
    /\ \E i \in BumpCalls : hist[i].writes /= {}
    /\ clone.toml /= before.toml

----------------------------------------------------------------------------
(* Claims about the changes flag of the update path of bot2104              *)

\* the update steps of the current repo have just returned
UpdateStepsDone ==
    /\ script = "bot2104"
    /\ branch /= "null"
    /\ pc \in {"updatePr", "fnReturn"}
    /\ hist /= <<>>
    /\ hist[Len(hist)].op = "update"

\* C27, as stated: in the update path of bot2104 updatePr is invoked if and
\* only if the update steps modified the checkout: the changes flag is true
\* whenever extension.json was removed, the content of extension.toml was
\* changed or the grammars directory was removed, and false when the
\* checkout is the same as before the update steps.
C27_UpdateIffModified == UpdateStepsDone => (changed <=> clone /= before)

====
